---- MODULE Spec2Model ----
(***************************************************************************)
(* LightSync WebDAV client (src-tauri/src/webdav/client.rs) and the        *)
(* server-profile validation it relies on (src-tauri/src/database.rs), and *)
(* the credential store KeyringManager (src-tauri/src/webdav/keyring.rs).  *)
(* The commands of src-tauri/src/commands/webdav.rs work on the table      *)
(* webdav_servers (src-tauri/src/webdav/db.rs), the credential store and   *)
(* the stored configuration (src-tauri/src/config.rs); they are async, so  *)
(* commands interleave at their await points.  The database file and the   *)
(* configuration store are taken to answer every call.                      *)
(*                                                                         *)
(* Strings are sequences of one-character atoms.  In a URL the scheme and  *)
(* its separator ("http://", "mailto:") are one atom, which can only stand *)
(* first (after leading blanks).  One session is: a profile and a secret   *)
(* are given, WebDavClient::new runs, and one public operation is called   *)
(* on the client it returned.  The client is immutable (&self methods), so *)
(* further calls on the same client repeat the same transitions.           *)
(***************************************************************************)
EXTENDS Integers, Sequences, FiniteSets, TLC

VARIABLES
    pc,         \* "init" before WebDavClient::new, "ready" after it returned, "done" after one operation
    config,     \* the WebDavServerConfig handed to new: [name, url, username, timeout]
    password,   \* the secret handed to new
    client,     \* the value new returned: NoClient or [url, username, password, timeout]
    call,       \* the operation called last and what the environment answered
    outcome,    \* the Result the last call returned
    sent,       \* HTTP requests put on the wire so far
    localFile,  \* the local target file of download: "old" (untouched), "new" (the
                \* whole body written) or "partial" (a write that failed midway)
    keyring,    \* the platform credential store under service "LightSync":
                \* server id -> password, or NoEntry
    klog,       \* the calls made to KeyringManager directly, with their results
    servers,    \* the table webdav_servers: server id -> row, or NoRow
    folders,    \* sync_folders of the stored configuration ("app_config")
    cmd,        \* the command that returned last, its result, and how many returned
    testing,    \* test_webdav_connection in flight: what it read before the request
    deleting    \* delete_webdav_server in flight: past the in-use check

vars ==
    <<pc, config, password, client, call, outcome, sent, localFile, keyring, klog,
      servers, folders, cmd, testing, deleting>>

----------------------------------------------------------------------------
(* Bounds of the model *)

MaxUrlTail == 3      \* atoms after the scheme of a client's URL
MaxNewUrlTail == 2   \* atoms after the scheme of a URL given to new, among all profiles
MaxNameLen == 1      \* length of name, username and password
MaxPathLen == 2      \* length of a relative path given to an operation
MaxWords == 2        \* words of a response header value
MaxChildren == 2     \* members of a listed collection
MaxOps == 3          \* calls made to the credential store
MaxCommands == 4     \* commands called on the server table

(* Program constants *)

MinTimeout == 1
MaxTimeout == 300

----------------------------------------------------------------------------
(* Strings *)

\* the strings over the alphabet A of length at most n
RECURSIVE Strs(_, _)
Strs(A, n) ==
    IF n = 0 THEN {<<>>}
    ELSE Strs(A, n - 1) \cup {Append(s, a) : s \in Strs(A, n - 1), a \in A}

Last(s) == s[Len(s)]

Front(s) == SubSeq(s, 1, Len(s) - 1)

Chars(s) == {s[i] : i \in 1..Len(s)}

\* str::trim_start_matches(c): removes every leading c
RECURSIVE TrimStartMatches(_, _)
TrimStartMatches(s, c) ==
    IF s # <<>> /\ Head(s) = c THEN TrimStartMatches(Tail(s), c) ELSE s

\* str::trim_end_matches(c): removes every trailing c
RECURSIVE TrimEndMatches(_, _)
TrimEndMatches(s, c) ==
    IF s # <<>> /\ Last(s) = c THEN TrimEndMatches(Front(s), c) ELSE s

\* str::trim(): removes leading and trailing white space
Trim(s) == TrimEndMatches(TrimStartMatches(s, " "), " ")

IsBlankNoTrim(s) == s = <<>>

\* s.trim().is_empty()
IsBlank(s) == Trim(s) = <<>>

----------------------------------------------------------------------------
(* Errors and results: SyncError (error.rs) with the message split into    *)
(* its fixed text, the variable detail and the number it states.           *)

NoNum == -1

\* files is the Vec<FileInfo> of list, serverType the String of test_connection
Err(kind, text, detail, num) ==
    [kind |-> kind, text |-> text, detail |-> detail, num |-> num, files |-> <<>>,
     serverType |-> ""]

\* Ok(()) and Ok(files)
Ok(files) ==
    [kind |-> "Success", text |-> "", detail |-> "", num |-> NoNum, files |-> files,
     serverType |-> ""]

\* Ok(server_type)
OkType(serverType) ==
    [kind |-> "Success", text |-> "", detail |-> "", num |-> NoNum, files |-> <<>>,
     serverType |-> serverType]

NoOutcome ==
    [kind |-> "None", text |-> "", detail |-> "", num |-> NoNum, files |-> <<>>,
     serverType |-> ""]

IsOk(r) == r.kind = "Success"

----------------------------------------------------------------------------
(* URLs: url::Url::parse as validate_url and reqwest use it *)

SchemeAtoms == {"http://", "https://", "ftp://", "mailto:"}

SpecialSchemes == {"http://", "https://", "ftp://"}

NoHost == <<"-">>

\* the leading run of s without a slash
RECURSIVE UpToSlash(_)
UpToSlash(s) ==
    IF s = <<>> \/ Head(s) = "/" THEN <<>> ELSE <<Head(s)>> \o UpToSlash(Tail(s))

\* Url::parse: blanks at both ends are dropped; without a scheme the input is
\* a relative URL (an error); a special scheme skips the slashes before the
\* host, needs a host, and forbids a blank in it; the rest is the path.
ParseUrl(s) ==
    LET t == Trim(s) IN
    IF t = <<>> \/ Head(t) \notin SchemeAtoms
    THEN [ok |-> FALSE, err |-> "relative URL without a base", scheme |-> "", host |-> NoHost, path |-> <<>>]
    ELSE IF Head(t) \notin SpecialSchemes
    THEN [ok |-> TRUE, err |-> "", scheme |-> Head(t), host |-> NoHost, path |-> Tail(t)]
    ELSE LET rest == TrimStartMatches(Tail(t), "/")
             host == UpToSlash(rest)
             path == SubSeq(rest, Len(host) + 1, Len(rest))
         IN  IF host = <<>>
             THEN [ok |-> FALSE, err |-> "empty host", scheme |-> "", host |-> NoHost, path |-> <<>>]
             ELSE IF " " \in Chars(host)
             THEN [ok |-> FALSE, err |-> "invalid domain character", scheme |-> "", host |-> NoHost, path |-> <<>>]
             ELSE [ok |-> TRUE, err |-> "", scheme |-> Head(t), host |-> host,
                   path |-> IF path = <<>> THEN <<"/">> ELSE path]

----------------------------------------------------------------------------
(* WebDavServerConfig::validate (database.rs); "" is Ok(()) *)

validate_url(cfg) ==
    IF IsBlank(cfg.url) THEN "URL cannot be empty"
    ELSE LET p == ParseUrl(cfg.url) IN
         IF ~p.ok THEN "Invalid URL format"
         ELSE IF p.scheme \notin {"http://", "https://"} THEN "URL must use http or https protocol"
         ELSE IF p.host = NoHost THEN "URL must contain a valid host"
         ELSE ""

validate_name(cfg) ==
    IF IsBlank(cfg.name) THEN "Server name cannot be empty" ELSE ""

validate_username(cfg) ==
    IF IsBlank(cfg.username) THEN "Username cannot be empty" ELSE ""

validate_timeout_strict(cfg) ==
    IF cfg.timeout <= MinTimeout \/ cfg.timeout >= MaxTimeout
    THEN "Timeout must be between 1 and 300 seconds" ELSE ""

validate_timeout(cfg) ==
    IF cfg.timeout < MinTimeout \/ cfg.timeout > MaxTimeout
    THEN "Timeout must be between 1 and 300 seconds" ELSE ""

\* the first error in the order name, url, username, timeout
validate(cfg) ==
    IF validate_name(cfg) # "" THEN validate_name(cfg)
    ELSE IF validate_url(cfg) # "" THEN validate_url(cfg)
    ELSE IF validate_username(cfg) # "" THEN validate_username(cfg)
    ELSE validate_timeout(cfg)

----------------------------------------------------------------------------
(* WebDavClient::new *)

NoClient == [url |-> <<>>, username |-> <<>>, password |-> <<>>, timeout |-> 0]

\* the Result of new: the error, or Ok; base64 of "username:password" is always
\* a valid header value and the HTTP client builder does not fail
NewResult(cfg, pw) ==
    IF validate(cfg) # "" THEN Err("ConfigError", "Invalid server config", validate(cfg), NoNum)
    ELSE IF IsBlank(pw) THEN Err("ConfigError", "Password cannot be empty", "", NoNum)
    ELSE Ok(<<>>)

NewClient(cfg, pw) ==
    [url |-> cfg.url, username |-> cfg.username, password |-> pw, timeout |-> cfg.timeout]

----------------------------------------------------------------------------
(* What the environment answers to one request *)

\* the transport: delivered (ok), or a reqwest::Error of send() with what
\* is_timeout(), is_connect() and to_string() say and its Kind.  Kind::Status
\* comes only from error_for_status(), which the client never calls.
Transport(ok, kind, timeout, connect, words) ==
    [ok |-> ok, kind |-> kind, timeout |-> timeout, connect |-> connect, words |-> words]

Delivered == Transport(TRUE, "", FALSE, FALSE, "")

BuilderError == Transport(FALSE, "Builder", FALSE, FALSE, "")

TransportErrors ==
    {Transport(FALSE, "Request", TRUE, c, "") : c \in BOOLEAN}
    \cup {Transport(FALSE, "Request", FALSE, TRUE, w) : w \in {"dns", "refused", "tls", "other"}}
    \cup {Transport(FALSE, k, FALSE, FALSE, "") : k \in {"Request", "Body", "Decode", "Redirect"}}

Transports == {Delivered} \cup TransportErrors

\* a header value: absent, or the words it holds
Header(present, words) == [present |-> present, words |-> words]

NoHeader == Header(FALSE, <<>>)

HeaderWords == {"Apache", "NextCloud", "ownCloud", "nginx", "e-acute"}

HeaderValues == {NoHeader} \cup {Header(TRUE, w) : w \in Strs(HeaderWords, MaxWords)}

Headers == [server : HeaderValues, poweredBy : HeaderValues, ocVersion : BOOLEAN]

PlainHeaders == [server |-> NoHeader, poweredBy |-> NoHeader, ocVersion |-> FALSE]

NoText == <<"-">>

NoListing == [self |-> <<>>, n |-> 0]

\* read: what reading the response body gave; localOk: whether the local file
\* could be read (upload) or written (download)
Call(op, path, url, t, status, headers, body, listing, read, localOk) ==
    [op |-> op, path |-> path, url |-> url, transport |-> t, status |-> status,
     headers |-> headers, body |-> body, listing |-> listing, read |-> read,
     localOk |-> localOk]

NoCall == Call("none", <<>>, <<>>, Delivered, 0, PlainHeaders, <<>>, NoListing, "ok", TRUE)

New ==
    /\ pc = "init"
    /\ pc' = "ready"
    /\ outcome' = NewResult(config, password)
    /\ client' = IF IsOk(NewResult(config, password)) THEN NewClient(config, password) ELSE NoClient
    /\ call' = Call("new", <<>>, <<>>, Delivered, 0, PlainHeaders, <<>>, NoListing, "ok", TRUE)
    /\ UNCHANGED <<servers, folders, cmd, testing, deleting, keyring, klog, config, password, sent, localFile>>

----------------------------------------------------------------------------
(* Request building and sending *)

build_url_keep_slashes(url, path) == url \o <<"/">> \o path

build_url_trim_both(url, path) ==
    TrimEndMatches(url, "/") \o <<"/">> \o TrimEndMatches(TrimStartMatches(path, "/"), "/")

\* WebDavClient::build_url
build_url(url, path) ==
    TrimEndMatches(url, "/") \o <<"/">> \o TrimStartMatches(path, "/")

\* reqwest's IntoUrl: the string must parse and have a host, else send()
\* returns a builder error and nothing goes on the wire
IntoUrlFails(url) == ~ParseUrl(url).ok \/ ParseUrl(url).host = NoHost

\* what send() returns for the request to url when the environment would answer t
Send(url, t) == IF IntoUrlFails(url) THEN BuilderError ELSE t

WireTwice(url) == IF IntoUrlFails(url) THEN 0 ELSE 2

\* requests the client puts on the wire by one send()
Wire(url) == IF IntoUrlFails(url) THEN 0 ELSE 1

----------------------------------------------------------------------------
(* Error mapping *)

map_request_error_with_secret(c, e) ==
    IF e.timeout THEN Err("Network", "Connection timeout after", "seconds", Len(c.password))
    ELSE IF e.connect THEN
        IF e.words = "dns" THEN Err("Network", "Failed to resolve server address", "", NoNum)
        ELSE IF e.words = "refused" THEN Err("Network", "Connection refused by server", "", NoNum)
        ELSE IF e.words = "tls" THEN Err("Network", "SSL/TLS connection error", "", NoNum)
        ELSE Err("Network", "Failed to connect to server", "", NoNum)
    ELSE IF e.kind = "Builder" THEN Err("ConfigError", "Failed to build HTTP request", "", NoNum)
    ELSE IF e.kind = "Request" THEN Err("Network", "Failed to send request", "", NoNum)
    ELSE IF e.kind \in {"Body", "Decode"} THEN Err("WebDav", "Failed to read server response", "", NoNum)
    ELSE IF e.kind = "Redirect" THEN Err("WebDav", "Too many redirects or invalid redirect", "", NoNum)
    ELSE Err("Network", "Network error", "", NoNum)

\* WebDavClient::map_request_error
map_request_error(c, e) ==
    IF e.timeout THEN Err("Network", "Connection timeout after", "seconds", c.timeout)
    ELSE IF e.connect THEN
        IF e.words = "dns" THEN Err("Network", "Failed to resolve server address", "", NoNum)
        ELSE IF e.words = "refused" THEN Err("Network", "Connection refused by server", "", NoNum)
        ELSE IF e.words = "tls" THEN Err("Network", "SSL/TLS connection error", "", NoNum)
        ELSE Err("Network", "Failed to connect to server", "", NoNum)
    ELSE IF e.kind = "Builder" THEN Err("ConfigError", "Failed to build HTTP request", "", NoNum)
    ELSE IF e.kind = "Request" THEN Err("Network", "Failed to send request", "", NoNum)
    ELSE IF e.kind \in {"Body", "Decode"} THEN Err("WebDav", "Failed to read server response", "", NoNum)
    ELSE IF e.kind = "Redirect" THEN Err("WebDav", "Too many redirects or invalid redirect", "", NoNum)
    ELSE Err("Network", "Network error", "", NoNum)

is_success(status) == status >= 200 /\ status < 300

is_client_error(status) == status >= 400 /\ status < 500

is_server_error(status) == status >= 500 /\ status < 600

ClientErrorDetail(status) ==
    CASE status = 400 -> "Bad Request"
      [] status = 405 -> "Method Not Allowed"
      [] status = 409 -> "Conflict"
      [] status = 411 -> "Length Required"
      [] status = 412 -> "Precondition Failed"
      [] status = 413 -> "Payload Too Large"
      [] status = 415 -> "Unsupported Media Type"
      [] status = 423 -> "Locked"
      [] status = 424 -> "Failed Dependency"
      [] OTHER -> "Client error occurred."

ServerErrorDetail(status) ==
    CASE status = 500 -> "Internal Server Error"
      [] status = 501 -> "Not Implemented"
      [] status = 502 -> "Bad Gateway"
      [] status = 503 -> "Service Unavailable"
      [] status = 504 -> "Gateway Timeout"
      [] status = 507 -> "Insufficient Storage"
      [] OTHER -> "Server error occurred."

check_response_status_no_404(status) ==
    IF is_success(status) \/ status = 207 THEN Ok(<<>>)
    ELSE IF status = 401 THEN Err("AuthError", "Authentication failed", "", NoNum)
    ELSE IF status = 403 THEN Err("AuthError", "Access forbidden", "", NoNum)
    ELSE IF is_client_error(status) THEN Err("WebDav", "HTTP", ClientErrorDetail(status), status)
    ELSE IF is_server_error(status) THEN Err("WebDav", "HTTP", ServerErrorDetail(status), status)
    ELSE Err("WebDav", "Unexpected HTTP status", "", status)

\* WebDavClient::check_response_status
check_response_status(status) ==
    IF is_success(status) \/ status = 207 THEN Ok(<<>>)
    ELSE IF status = 401 THEN Err("AuthError", "Authentication failed", "", NoNum)
    ELSE IF status = 403 THEN Err("AuthError", "Access forbidden", "", NoNum)
    ELSE IF status = 404 THEN Err("NotFound", "Resource not found", "", NoNum)
    ELSE IF is_client_error(status) THEN Err("WebDav", "HTTP", ClientErrorDetail(status), status)
    ELSE IF is_server_error(status) THEN Err("WebDav", "HTTP", ServerErrorDetail(status), status)
    ELSE Err("WebDav", "Unexpected HTTP status", "", status)

----------------------------------------------------------------------------
(* Server-type detection *)

\* str::to_lowercase on one word
ToLower(w) ==
    CASE w = "Apache" -> "apache"
      [] w = "NextCloud" -> "nextcloud"
      [] w = "ownCloud" -> "owncloud"
      [] OTHER -> w

\* HeaderValue::to_str succeeds: every byte is visible ASCII
ToStrOk(h) == \A i \in 1..Len(h.words) : h.words[i] # "e-acute"

\* value.to_lowercase().contains(token)
LowerContains(h, token) == \E i \in 1..Len(h.words) : ToLower(h.words[i]) = token

Readable(h) == h.present /\ ToStrOk(h)

detect_server_type_apache_first(hs) ==
    IF Readable(hs.server) /\ LowerContains(hs.server, "apache") THEN "apache"
    ELSE IF Readable(hs.server) /\ LowerContains(hs.server, "nextcloud") THEN "nextcloud"
    ELSE IF Readable(hs.server) /\ LowerContains(hs.server, "owncloud") THEN "owncloud"
    ELSE IF Readable(hs.server) /\ LowerContains(hs.server, "nginx") THEN "nginx"
    ELSE IF Readable(hs.poweredBy) /\ LowerContains(hs.poweredBy, "nextcloud") THEN "nextcloud"
    ELSE IF Readable(hs.poweredBy) /\ LowerContains(hs.poweredBy, "owncloud") THEN "owncloud"
    ELSE IF hs.ocVersion THEN "owncloud"
    ELSE "generic"

\* WebDavClient::detect_server_type
detect_server_type(hs) ==
    IF Readable(hs.server) /\ LowerContains(hs.server, "nextcloud") THEN "nextcloud"
    ELSE IF Readable(hs.server) /\ LowerContains(hs.server, "owncloud") THEN "owncloud"
    ELSE IF Readable(hs.server) /\ LowerContains(hs.server, "apache") THEN "apache"
    ELSE IF Readable(hs.server) /\ LowerContains(hs.server, "nginx") THEN "nginx"
    ELSE IF Readable(hs.poweredBy) /\ LowerContains(hs.poweredBy, "nextcloud") THEN "nextcloud"
    ELSE IF Readable(hs.poweredBy) /\ LowerContains(hs.poweredBy, "owncloud") THEN "owncloud"
    ELSE IF hs.ocVersion THEN "owncloud"
    ELSE "generic"

----------------------------------------------------------------------------
(* test_connection *)

TestConnectionSharedClassifier(c, r, status, hs) ==
    IF ~r.ok THEN
        IF r.timeout THEN Err("Network", "Connection timeout after", "seconds", c.timeout)
        ELSE IF r.connect THEN Err("Network", "Failed to connect to server", "", NoNum)
        ELSE Err("Network", "Network error", "", NoNum)
    ELSE IF ~IsOk(check_response_status(status)) THEN check_response_status(status)
    ELSE IF status # 207 /\ status # 200
    THEN Err("WebDav", "Server does not appear to support WebDAV protocol", "", NoNum)
    ELSE OkType(detect_server_type(hs))

TestConnectionAnySuccess(c, r, status, hs) ==
    IF ~r.ok THEN
        IF r.timeout THEN Err("Network", "Connection timeout after", "seconds", c.timeout)
        ELSE IF r.connect THEN Err("Network", "Failed to connect to server", "", NoNum)
        ELSE Err("Network", "Network error", "", NoNum)
    ELSE IF status = 401 THEN Err("AuthError", "Authentication failed", "", NoNum)
    ELSE IF status = 403 THEN Err("AuthError", "Access forbidden", "", NoNum)
    ELSE IF ~is_success(status) /\ status # 207
    THEN Err("WebDav", "Server returned error status", "", status)
    ELSE OkType(detect_server_type(hs))

\* the Result of test_connection when send() returned r (with this status and
\* these headers when it is a response)
TestConnectionResult(c, r, status, hs) ==
    IF ~r.ok THEN
        IF r.timeout THEN Err("Network", "Connection timeout after", "seconds", c.timeout)
        ELSE IF r.connect THEN Err("Network", "Failed to connect to server", "", NoNum)
        ELSE Err("Network", "Network error", "", NoNum)
    ELSE IF status = 401 THEN Err("AuthError", "Authentication failed", "", NoNum)
    ELSE IF status = 403 THEN Err("AuthError", "Access forbidden", "", NoNum)
    ELSE IF ~is_success(status) /\ status # 207
    THEN Err("WebDav", "Server returned error status", "", status)
    ELSE IF status # 207 /\ status # 200
    THEN Err("WebDav", "Server does not appear to support WebDAV protocol", "", NoNum)
    ELSE OkType(detect_server_type(hs))

TestConnection(t, status, hs) ==
    /\ pc = "ready"
    /\ IsOk(outcome)
    /\ pc' = "done"
    /\ call' = Call("test_connection", <<>>, client.url, t, status, hs, <<>>, NoListing, "ok", TRUE)
    /\ outcome' = TestConnectionResult(client, Send(client.url, t), status, hs)
    /\ sent' = sent + Wire(client.url)
    /\ UNCHANGED <<servers, folders, cmd, testing, deleting, keyring, klog, config, password, client, localFile>>

----------------------------------------------------------------------------
(* Multi-status bodies and their parsing *)

\* One piece of the body after a "<D:response>" opening tag: closed says the
\* closing tag follows, href and length are the text of the first D:href and
\* D:getcontentlength elements (NoText when the element is missing or
\* unterminated), collection says "<D:collection/>" occurs.
Fragment(closed, href, collection, length) ==
    [closed |-> closed, href |-> href, collection |-> collection, length |-> length]

Digits == {"0", "1"}

DigitValue(d) == IF d = "1" THEN 1 ELSE 0

\* str::parse::<u64>: -1 stands for Err
RECURSIVE ParseU64(_)
ParseU64(s) ==
    IF s = <<>> \/ s = NoText \/ Chars(s) \ Digits # {} THEN -1
    ELSE IF Len(s) = 1 THEN DigitValue(s[1])
    ELSE 10 * ParseU64(Front(s)) + DigitValue(Last(s))

\* path.trim_end_matches('/').split('/').last()
RECURSIVE LastSegment(_)
LastSegment(s) ==
    IF s = <<>> \/ Last(s) = "/" THEN <<>> ELSE LastSegment(Front(s)) \o <<Last(s)>>

\* the FileInfo pushed for a fragment (fields named as it is serialized)
FileInfo(f) ==
    [path |-> f.href,
     name |-> LastSegment(TrimEndMatches(f.href, "/")),
     isDirectory |-> f.collection,
     size |-> IF f.collection \/ ParseU64(f.length) < 0 THEN 0 ELSE ParseU64(f.length)]

\* the loop of parse_propfind_response over the pieces that are left, files
\* being the entries pushed so far
RECURSIVE ParseFragments(_, _, _)
ParseFragments(frags, base_path, files) ==
    IF frags = <<>> THEN Ok(files)
    ELSE LET f == Head(frags) IN
         IF ~f.closed THEN ParseFragments(Tail(frags), base_path, files)
         ELSE IF f.href = NoText
         THEN Err("WebDav", "Failed to extract XML value for tag", "D:href", NoNum)
         ELSE IF TrimEndMatches(f.href, "/") = TrimEndMatches(base_path, "/")
         THEN ParseFragments(Tail(frags), base_path, files)
         ELSE ParseFragments(Tail(frags), base_path, Append(files, FileInfo(f)))

\* WebDavClient::parse_propfind_response
parse_propfind_response(xml, base_path) == ParseFragments(xml, base_path, <<>>)

\* The multi-status body a server sends for PROPFIND Depth 1 on the URL path
\* reqPath: the collection itself, then its n members; every href is the
\* absolute URL path of the resource (examples/mock_server_demo.rs).
RECURSIVE Repeat(_, _)
Repeat(c, i) == IF i = 0 THEN <<>> ELSE Append(Repeat(c, i - 1), c)

\* the i-th member: named f, ff, ...; every second one a collection
Member(i) ==
    [name |-> Repeat("f", i), collection |-> i % 2 = 0, length |-> <<"1", "0">>]

MemberFragment(reqPath, i) ==
    Fragment(TRUE,
             TrimEndMatches(reqPath, "/") \o <<"/">> \o Member(i).name
                 \o (IF Member(i).collection THEN <<"/">> ELSE <<>>),
             Member(i).collection,
             IF Member(i).collection THEN NoText ELSE Member(i).length)

\* the collection's own href ends in a slash or not, as the server likes; the
\* root is always "/"
SelfFragment(reqPath, slash) ==
    Fragment(TRUE,
             TrimEndMatches(reqPath, "/")
                 \o (IF slash \/ TrimEndMatches(reqPath, "/") = <<>> THEN <<"/">> ELSE <<>>),
             TRUE, NoText)

RECURSIVE MemberFragments(_, _)
MemberFragments(reqPath, n) ==
    IF n = 0 THEN <<>> ELSE Append(MemberFragments(reqPath, n - 1), MemberFragment(reqPath, n))

ServerBody(reqPath, slash, n) ==
    <<SelfFragment(reqPath, slash)>> \o MemberFragments(reqPath, n)

\* the last piece of a body damaged: its href lost, its closing tag lost
\* (the body is cut after the href), both lost (the body is cut before the
\* href), its content length lost, or its content length not a number
Damaged(body, how) ==
    IF how = "none" THEN body
    ELSE IF how = "nohref" THEN Append(Front(body), [Last(body) EXCEPT !.href = NoText])
    ELSE IF how = "bare"
    THEN Append(Front(body), [Last(body) EXCEPT !.href = NoText, !.closed = FALSE])
    ELSE IF how = "nolength" THEN Append(Front(body), [Last(body) EXCEPT !.length = NoText])
    ELSE IF how = "badlength" THEN Append(Front(body), [Last(body) EXCEPT !.length = <<"x">>])
    ELSE Append(Front(body), [Last(body) EXCEPT !.closed = FALSE])

----------------------------------------------------------------------------
(* list, upload, download, delete, mkdir *)

\* the Result of list when send() returned r and, for a response, reading the
\* body gave read ("ok" or an error) and the text xml
ListResult(c, path, r, status, read, xml) ==
    IF ~r.ok THEN map_request_error(c, r)
    ELSE IF ~IsOk(check_response_status(status)) THEN check_response_status(status)
    ELSE IF read # "ok" THEN Err("WebDav", "Failed to read response body", "", NoNum)
    ELSE parse_propfind_response(xml, path)

List(path, t, status, read, slash, n, how) ==
    LET url == build_url(client.url, path)
        reqPath == ParseUrl(url).path
        xml == Damaged(ServerBody(reqPath, slash, n), how)
    IN  /\ pc = "ready"
        /\ IsOk(outcome)
        /\ pc' = "done"
        /\ call' = Call("list", path, url, t, status, PlainHeaders, xml,
                        [self |-> reqPath, n |-> n], read, TRUE)
        /\ outcome' = ListResult(client, path, Send(url, t), status, read, xml)
        /\ sent' = sent + Wire(url)
        /\ UNCHANGED <<servers, folders, cmd, testing, deleting, keyring, klog, config, password, client, localFile>>

\* the Result of delete, of mkdir, and of upload once the local file is read
SimpleResult(c, r, status) ==
    IF ~r.ok THEN map_request_error(c, r) ELSE check_response_status(status)

UploadSendFirst(readable, path, t, status) ==
    LET url == build_url(client.url, path) IN
    /\ pc = "ready"
    /\ IsOk(outcome)
    /\ pc' = "done"
    /\ call' = Call("upload", path, url, t, status, PlainHeaders, <<>>, NoListing, "ok", readable)
    /\ outcome' = IF ~IsOk(SimpleResult(client, Send(url, t), status))
                  THEN SimpleResult(client, Send(url, t), status)
                  ELSE IF ~readable THEN Err("Io", "", "", NoNum) ELSE Ok(<<>>)
    /\ sent' = sent + Wire(url)
    /\ UNCHANGED <<servers, folders, cmd, testing, deleting, keyring, klog, config, password, client, localFile>>

\* WebDavClient::upload: the local file is read, then the PUT is sent
Upload(readable, path, t, status) ==
    LET url == build_url(client.url, path) IN
    /\ pc = "ready"
    /\ IsOk(outcome)
    /\ pc' = "done"
    /\ call' = Call("upload", path, url, t, status, PlainHeaders, <<>>, NoListing, "ok", readable)
    /\ outcome' = IF ~readable THEN Err("Io", "", "", NoNum)
                  ELSE SimpleResult(client, Send(url, t), status)
    /\ sent' = IF ~readable THEN sent ELSE sent + Wire(url)
    /\ UNCHANGED <<servers, folders, cmd, testing, deleting, keyring, klog, config, password, client, localFile>>

DownloadResult(c, r, status, read, writable) ==
    IF ~r.ok THEN map_request_error(c, r)
    ELSE IF ~IsOk(check_response_status(status)) THEN check_response_status(status)
    ELSE IF read # "ok" THEN Err("WebDav", "Failed to read response body", "", NoNum)
    ELSE IF ~writable THEN Err("Io", "", "", NoNum)
    ELSE Ok(<<>>)

DownloadStreaming(path, t, status, read, writable) ==
    LET url == build_url(client.url, path) IN
    /\ pc = "ready"
    /\ IsOk(outcome)
    /\ pc' = "done"
    /\ call' = Call("download", path, url, t, status, PlainHeaders, <<>>, NoListing, read, writable)
    /\ outcome' = DownloadResult(client, Send(url, t), status, read, writable)
    /\ localFile' = IF IsOk(DownloadResult(client, Send(url, t), status, read, writable))
                    THEN "new"
                    ELSE IF Send(url, t).ok /\ IsOk(check_response_status(status)) /\ writable
                    THEN "partial" ELSE localFile
    /\ sent' = sent + Wire(url)
    /\ UNCHANGED <<servers, folders, cmd, testing, deleting, keyring, klog, config, password, client>>

\* WebDavClient::download: tokio::fs::write runs only with the whole body; when
\* it fails the file is untouched (it could not be opened) or partly written
Download(path, t, status, read, writable) ==
    LET url == build_url(client.url, path)
        result == DownloadResult(client, Send(url, t), status, read, writable)
    IN  /\ pc = "ready"
        /\ IsOk(outcome)
        /\ pc' = "done"
        /\ call' = Call("download", path, url, t, status, PlainHeaders, <<>>, NoListing, read, writable)
        /\ outcome' = result
        /\ localFile' \in (IF IsOk(result) THEN {"new"}
                           ELSE IF result.kind = "Io" THEN {localFile, "partial"}
                           ELSE {localFile})
        /\ sent' = sent + Wire(url)
        /\ UNCHANGED <<servers, folders, cmd, testing, deleting, keyring, klog, config, password, client>>

Delete(path, t, status) ==
    LET url == build_url(client.url, path) IN
    /\ pc = "ready"
    /\ IsOk(outcome)
    /\ pc' = "done"
    /\ call' = Call("delete", path, url, t, status, PlainHeaders, <<>>, NoListing, "ok", TRUE)
    /\ outcome' = SimpleResult(client, Send(url, t), status)
    /\ sent' = sent + Wire(url)
    /\ UNCHANGED <<servers, folders, cmd, testing, deleting, keyring, klog, config, password, client, localFile>>

Mkdir(path, t, status) ==
    LET url == build_url(client.url, path) IN
    /\ pc = "ready"
    /\ IsOk(outcome)
    /\ pc' = "done"
    /\ call' = Call("mkdir", path, url, t, status, PlainHeaders, <<>>, NoListing, "ok", TRUE)
    /\ outcome' = SimpleResult(client, Send(url, t), status)
    /\ sent' = sent + Wire(url)
    /\ UNCHANGED <<servers, folders, cmd, testing, deleting, keyring, klog, config, password, client, localFile>>

----------------------------------------------------------------------------
(* KeyringManager (keyring.rs): passwords in the platform credential store, *)
(* one entry per server id.  A platform call that reports a failure leaves  *)
(* the store as it was.                                                      *)

\* keyring::Error::NoEntry, and the value of a result that carries no password
NoEntry == <<"-">>

ServerIds == {<<" ">>, <<"a">>, <<"b">>}

StoredPasswords == {<<>>, <<"x">>, <<"y">>}

\* what the platform does with one call: "ok" it works, "entry" Entry::new
\* fails, "store" the operation on the entry fails (other than NoEntry)
Platforms == {"ok", "entry", "store"}

EmptyStore == [id \in ServerIds |-> NoEntry]

KResult(kind, text, value) == [kind |-> kind, text |-> text, value |-> value]

KSuccess(value) == KResult("Success", "", value)

KeyringResult(result, store) == [result |-> result, store |-> store]

KCall(op, id, pw, platform, result) ==
    [op |-> op, id |-> id, password |-> pw, platform |-> platform, result |-> result]

save_password_keep_existing(store, server_id, pw, platform) ==
    IF IsBlank(server_id)
    THEN KeyringResult(KResult("ConfigError", "Server ID cannot be empty", NoEntry), store)
    ELSE IF pw = <<>>
    THEN KeyringResult(KResult("ConfigError", "Password cannot be empty", NoEntry), store)
    ELSE IF platform = "entry"
    THEN KeyringResult(KResult("ConfigError", "Failed to create keyring entry", NoEntry), store)
    ELSE IF platform = "store"
    THEN KeyringResult(KResult("ConfigError", "Failed to save password to keyring", NoEntry), store)
    ELSE KeyringResult(KSuccess(NoEntry),
                       IF store[server_id] = NoEntry THEN [store EXCEPT ![server_id] = pw]
                       ELSE store)

\* KeyringManager::save_password; the password is tested with is_empty, not trimmed
save_password(store, server_id, pw, platform) ==
    IF IsBlank(server_id)
    THEN KeyringResult(KResult("ConfigError", "Server ID cannot be empty", NoEntry), store)
    ELSE IF pw = <<>>
    THEN KeyringResult(KResult("ConfigError", "Password cannot be empty", NoEntry), store)
    ELSE IF platform = "entry"
    THEN KeyringResult(KResult("ConfigError", "Failed to create keyring entry", NoEntry), store)
    ELSE IF platform = "store"
    THEN KeyringResult(KResult("ConfigError", "Failed to save password to keyring", NoEntry), store)
    ELSE KeyringResult(KSuccess(NoEntry), [store EXCEPT ![server_id] = pw])

\* KeyringManager::get_password
get_password(store, server_id, platform) ==
    IF IsBlank(server_id)
    THEN KeyringResult(KResult("ConfigError", "Server ID cannot be empty", NoEntry), store)
    ELSE IF platform = "entry"
    THEN KeyringResult(KResult("ConfigError", "Failed to create keyring entry", NoEntry), store)
    ELSE IF platform = "store"
    THEN KeyringResult(KResult("ConfigError", "Failed to read password from keyring", NoEntry), store)
    ELSE IF store[server_id] = NoEntry
    THEN KeyringResult(KResult("NotFound", "Password not found for server", NoEntry), store)
    ELSE KeyringResult(KSuccess(store[server_id]), store)

delete_password_idempotent(store, server_id, platform) ==
    IF IsBlank(server_id)
    THEN KeyringResult(KResult("ConfigError", "Server ID cannot be empty", NoEntry), store)
    ELSE IF platform = "entry"
    THEN KeyringResult(KResult("ConfigError", "Failed to create keyring entry", NoEntry), store)
    ELSE IF platform = "store"
    THEN KeyringResult(KResult("ConfigError", "Failed to delete password from keyring", NoEntry), store)
    ELSE KeyringResult(KSuccess(NoEntry), [store EXCEPT ![server_id] = NoEntry])

\* KeyringManager::delete_password
delete_password(store, server_id, platform) ==
    IF IsBlank(server_id)
    THEN KeyringResult(KResult("ConfigError", "Server ID cannot be empty", NoEntry), store)
    ELSE IF platform = "entry"
    THEN KeyringResult(KResult("ConfigError", "Failed to create keyring entry", NoEntry), store)
    ELSE IF platform = "store"
    THEN KeyringResult(KResult("ConfigError", "Failed to delete password from keyring", NoEntry), store)
    ELSE IF store[server_id] = NoEntry
    THEN KeyringResult(KResult("NotFound", "Password not found for server", NoEntry), store)
    ELSE KeyringResult(KSuccess(NoEntry), [store EXCEPT ![server_id] = NoEntry])

SavePassword(server_id, pw, platform) ==
    /\ Len(klog) < MaxOps
    /\ keyring' = save_password(keyring, server_id, pw, platform).store
    /\ klog' = Append(klog, KCall("save", server_id, pw, platform,
                                  save_password(keyring, server_id, pw, platform).result))
    /\ UNCHANGED <<servers, folders, cmd, testing, deleting, pc, config, password, client,
                   call, outcome, sent, localFile>>

GetPassword(server_id, platform) ==
    /\ Len(klog) < MaxOps
    /\ keyring' = get_password(keyring, server_id, platform).store
    /\ klog' = Append(klog, KCall("get", server_id, NoEntry, platform,
                                  get_password(keyring, server_id, platform).result))
    /\ UNCHANGED <<servers, folders, cmd, testing, deleting, pc, config, password, client,
                   call, outcome, sent, localFile>>

DeletePassword(server_id, platform) ==
    /\ Len(klog) < MaxOps
    /\ keyring' = delete_password(keyring, server_id, platform).store
    /\ klog' = Append(klog, KCall("delete", server_id, NoEntry, platform,
                                  delete_password(keyring, server_id, platform).result))
    /\ UNCHANGED <<servers, folders, cmd, testing, deleting, pc, config, password, client,
                   call, outcome, sent, localFile>>

\* the platform is reached only with a server id that is not blank and, in
\* save_password, a password that is not empty
PlatformsFor(server_id, pw) ==
    IF IsBlank(server_id) \/ pw = <<>> THEN {"ok"} ELSE Platforms

SavePasswordCalls ==
    /\ Len(klog) < MaxOps
    /\ \E server_id \in ServerIds, pw \in StoredPasswords :
           \E platform \in PlatformsFor(server_id, pw) : SavePassword(server_id, pw, platform)

GetPasswordCalls ==
    /\ Len(klog) < MaxOps
    /\ \E server_id \in ServerIds :
           \E platform \in PlatformsFor(server_id, <<"x">>) : GetPassword(server_id, platform)

DeletePasswordCalls ==
    /\ Len(klog) < MaxOps
    /\ \E server_id \in ServerIds :
           \E platform \in PlatformsFor(server_id, <<"x">>) : DeletePassword(server_id, platform)

----------------------------------------------------------------------------
(* The table webdav_servers (db.rs) *)

\* a row of webdav_servers; last_test_at is "None" or "Some", last_test_error
\* is the error the test ended in, NoOutcome for None
Row(name, url, username, useHttps, timeout, at, status, error, serverType, enabled) ==
    [present |-> TRUE, name |-> name, url |-> url, username |-> username,
     useHttps |-> useHttps, timeout |-> timeout, lastTestAt |-> at,
     lastTestStatus |-> status, lastTestError |-> error,
     serverType |-> serverType, enabled |-> enabled]

NoRow ==
    [Row(<<>>, <<>>, <<>>, FALSE, 0, "None", "", NoOutcome, "", FALSE) EXCEPT !.present = FALSE]

EmptyTable == [id \in ServerIds |-> NoRow]

\* Result<T> of a command: the SyncError, or for test_webdav_connection the
\* ConnectionTestResult, whose content is what test_connection returned
CResult(ok, kind, text, num, names, test) ==
    [ok |-> ok, kind |-> kind, text |-> text, num |-> num, names |-> names, test |-> test]

COk == CResult(TRUE, "Success", "", NoNum, <<>>, NoOutcome)

CErr(kind, text) == CResult(FALSE, kind, text, NoNum, <<>>, NoOutcome)

\* the '?' operator on a Result of KeyringManager or of WebDavClient::new
FromKeyring(r) == IF r.kind = "Success" THEN COk ELSE CErr(r.kind, r.text)

DbResult(result, table) == [result |-> result, table |-> table]

\* db::insert_webdav_server
insert_webdav_server(table, id, row) ==
    IF validate(row) # ""
    THEN DbResult(CErr("ConfigError", "Invalid server config"), table)
    ELSE DbResult(COk, [table EXCEPT ![id] = row])

\* db::get_webdav_server_by_id
get_webdav_server_by_id(table, id) ==
    IF table[id].present THEN DbResult(COk, table)
    ELSE DbResult(CErr("NotFound", "WebDAV server not found"), table)

\* db::update_webdav_server: the UPDATE sets every column but id and created_at
db_update_webdav_server(table, id, row) ==
    IF validate(row) # ""
    THEN DbResult(CErr("ConfigError", "Invalid server config"), table)
    ELSE IF ~get_webdav_server_by_id(table, id).result.ok
    THEN get_webdav_server_by_id(table, id)
    ELSE DbResult(COk, [table EXCEPT ![id] = row])

\* db::delete_webdav_server
db_delete_webdav_server(table, id) ==
    IF ~get_webdav_server_by_id(table, id).result.ok
    THEN get_webdav_server_by_id(table, id)
    ELSE DbResult(COk, [table EXCEPT ![id] = NoRow])

----------------------------------------------------------------------------
(* The commands (commands/webdav.rs) and update_config (config.rs) *)

SyncFolder(name, server_id) == [name |-> name, serverId |-> server_id]

\* AddServerInput
AddServerInput(profile) ==
    [name |-> profile.name, url |-> profile.url, username |-> profile.username,
     useHttps |-> FALSE, timeout |-> profile.timeout, lastTestStatus |-> "",
     serverType |-> "", enabled |-> TRUE]

NoCmd == [n |-> 0, op |-> "none", id |-> <<>>, result |-> COk]

Returned(op, id, result) == [n |-> cmd.n + 1, op |-> op, id |-> id, result |-> result]

NotTesting == [active |-> FALSE, id |-> <<>>, config |-> NoRow, password |-> <<>>]

NotDeleting == [active |-> FALSE, id |-> <<>>]

\* commands called so far
Started ==
    cmd.n + (IF testing.active THEN 1 ELSE 0) + (IF deleting.active THEN 1 ELSE 0)

\* the folders of the configuration that use the server
FoldersUsing(fs, server_id) == SelectSeq(fs, LAMBDA f : f.serverId = server_id)

FolderNames(fs) == [i \in 1..Len(fs) |-> fs[i].name]

check_server_in_use_first_only(fs, server_id) ==
    IF FoldersUsing(fs, server_id) # <<>>
    THEN CResult(FALSE, "ConfigError", "Cannot delete server: it is being used by",
                 1, <<FoldersUsing(fs, server_id)[1].name>>, NoOutcome)
    ELSE COk

\* check_server_in_use
check_server_in_use(fs, server_id) ==
    IF FoldersUsing(fs, server_id) # <<>>
    THEN CResult(FALSE, "ConfigError", "Cannot delete server: it is being used by",
                 Len(FoldersUsing(fs, server_id)), FolderNames(FoldersUsing(fs, server_id)),
                 NoOutcome)
    ELSE COk

\* Uuid::new_v4(): an id that was never used
Unused(id) ==
    /\ ~servers[id].present
    /\ keyring[id] = NoEntry
    /\ FoldersUsing(folders, id) = <<>>
    /\ ~(testing.active /\ testing.id = id)
    /\ ~(deleting.active /\ deleting.id = id)

CommandIds == <<<<"a">>, <<"b">>>>

FreshId == IF Unused(CommandIds[1]) THEN CommandIds[1] ELSE CommandIds[2]

\* add_webdav_server: the row is inserted, then the password is saved
AddWebdavServer(input, pw, platform) ==
    LET server_id == FreshId
        row == Row(input.name, input.url, input.username, input.useHttps, input.timeout,
                   "None",
                   IF input.lastTestStatus = "" THEN "unknown" ELSE input.lastTestStatus,
                   NoOutcome,
                   IF input.serverType = "" THEN "generic" ELSE input.serverType,
                   input.enabled)
        inserted == insert_webdav_server(servers, server_id, row)
        saved == save_password(keyring, server_id, pw, platform)
    IN  /\ Started < MaxCommands
        /\ Unused(FreshId)
        /\ servers' = inserted.table
        /\ keyring' = IF inserted.result.ok THEN saved.store ELSE keyring
        /\ cmd' = Returned("add", server_id,
                           IF ~inserted.result.ok THEN inserted.result
                           ELSE FromKeyring(saved.result))
        /\ UNCHANGED <<folders, testing, deleting, klog, pc, config, password, client, call,
                       outcome, sent, localFile>>

\* update_webdav_server: the row is updated, then the password is saved if
\* one is given (NoEntry stands for None)
UpdateWebdavServer(server_id, row, pw, platform) ==
    LET updated == db_update_webdav_server(servers, server_id, row)
        saved == save_password(keyring, server_id, pw, platform)
    IN  /\ Started < MaxCommands
        /\ servers' = updated.table
        /\ keyring' = IF updated.result.ok /\ pw # NoEntry THEN saved.store ELSE keyring
        /\ cmd' = Returned("update", server_id,
                           IF ~updated.result.ok THEN updated.result
                           ELSE IF pw # NoEntry THEN FromKeyring(saved.result)
                           ELSE COk)
        /\ UNCHANGED <<folders, testing, deleting, klog, pc, config, password, client, call,
                       outcome, sent, localFile>>

\* update_config: the stored configuration is replaced
UpdateConfig(fs) ==
    /\ Started < MaxCommands
    /\ folders' = fs
    /\ cmd' = Returned("update_config", <<>>, COk)
    /\ UNCHANGED <<servers, keyring, testing, deleting, klog, pc, config, password, client,
                   call, outcome, sent, localFile>>

\* delete_webdav_server up to its second await: check_server_in_use
DeleteWebdavServerCheck(server_id) ==
    /\ Started < MaxCommands
    /\ ~deleting.active
    /\ IF check_server_in_use(folders, server_id).ok
       THEN /\ deleting' = [active |-> TRUE, id |-> server_id]
            /\ cmd' = cmd
       ELSE /\ deleting' = deleting
            /\ cmd' = Returned("delete", server_id, check_server_in_use(folders, server_id))
    /\ UNCHANGED <<servers, folders, keyring, testing, klog, pc, config, password, client,
                   call, outcome, sent, localFile>>

\* delete_webdav_server from there: the row is deleted, then the password; a
\* failure to delete the password is ignored
DeleteWebdavServerFinish(platform) ==
    LET deleted == db_delete_webdav_server(servers, deleting.id) IN
    /\ deleting.active
    /\ deleting' = NotDeleting
    /\ servers' = deleted.table
    /\ keyring' = IF deleted.result.ok
                  THEN delete_password(keyring, deleting.id, platform).store
                  ELSE keyring
    /\ cmd' = Returned("delete", deleting.id, deleted.result)
    /\ UNCHANGED <<folders, testing, klog, pc, config, password, client, call, outcome,
                   sent, localFile>>

\* test_webdav_connection up to the request: the row and the password are
\* read and the client is built
TestWebdavConnectionBegin(server_id, platform) ==
    LET found == get_webdav_server_by_id(servers, server_id)
        pw == get_password(keyring, server_id, platform).result
        built == NewResult(servers[server_id], pw.value)
    IN  /\ Started < MaxCommands
        /\ ~testing.active
        /\ IF ~found.result.ok
           THEN /\ cmd' = Returned("test", server_id, found.result)
                /\ testing' = testing
           ELSE IF pw.kind # "Success"
           THEN /\ cmd' = Returned("test", server_id, FromKeyring(pw))
                /\ testing' = testing
           ELSE IF ~IsOk(built)
           THEN /\ cmd' = Returned("test", server_id, CErr(built.kind, built.text))
                /\ testing' = testing
           ELSE /\ cmd' = cmd
                /\ testing' = [active |-> TRUE, id |-> server_id,
                               config |-> servers[server_id], password |-> pw.value]
        /\ UNCHANGED <<servers, folders, keyring, deleting, klog, pc, config, password,
                       client, call, outcome, sent, localFile>>

\* the row test_webdav_connection writes: the configuration it read, with the
\* test recorded
Tested(row, test) ==
    IF IsOk(test)
    THEN [row EXCEPT !.lastTestAt = "Some", !.lastTestStatus = "success",
                     !.lastTestError = NoOutcome, !.serverType = test.serverType]
    ELSE [row EXCEPT !.lastTestAt = "Some", !.lastTestStatus = "failed",
                     !.lastTestError = test]

\* test_webdav_connection from there: the request is sent and the outcome is
\* written to the row with db::update_webdav_server
TestWebdavConnectionFinish(t, status, hs) ==
    LET c == NewClient(testing.config, testing.password)
        test == TestConnectionResult(c, Send(c.url, t), status, hs)
        updated == db_update_webdav_server(servers, testing.id, Tested(testing.config, test))
    IN  /\ testing.active
        /\ testing' = NotTesting
        /\ sent' = sent + Wire(c.url)
        /\ servers' = updated.table
        /\ cmd' = Returned("test", testing.id,
                           IF updated.result.ok
                           THEN CResult(TRUE, "Success", "", NoNum, <<>>, test)
                           ELSE updated.result)
        /\ UNCHANGED <<folders, keyring, deleting, klog, pc, config, password, client, call,
                       outcome, localFile>>

----------------------------------------------------------------------------
(* Profiles and secrets *)

NameChars == {" ", "x"}

UrlChars == {" ", "/", "a"}

UrlStringsOf(n) ==
    {lead \o sch \o tail :
        lead \in {<<>>, <<" ">>},
        sch \in {<<>>} \cup {<<a>> : a \in SchemeAtoms},
        tail \in Strs(UrlChars, n)}

Timeouts == {0, 1, 30, 300, 301}

Passwords == Strs(NameChars, MaxNameLen)

\* every profile: any name, URL, username and timeout
Profiles ==
    [name : Strs(NameChars, MaxNameLen), url : UrlStringsOf(MaxNewUrlTail),
     username : Strs(NameChars, MaxNameLen), timeout : Timeouts]

\* profiles that differ in the URL only
UrlProfiles ==
    [name : {<<"x">>}, url : UrlStringsOf(MaxUrlTail), username : {<<"x">>}, timeout : {30}]

\* scenario 1 of the specification: a valid profile
PlainProfile == [name |-> <<"x">>, url |-> <<"http://", "a">>, username |-> <<"x">>, timeout |-> 30]

InitWith(cfgs, pws) ==
    /\ pc = "init"
    /\ config \in cfgs
    /\ password \in pws
    /\ client = NoClient
    /\ call = NoCall
    /\ outcome = NoOutcome
    /\ sent = 0
    /\ localFile = "old"
    /\ keyring = EmptyStore
    /\ klog = <<>>
    /\ servers = EmptyTable
    /\ folders = <<>>
    /\ cmd = NoCmd
    /\ testing = NotTesting
    /\ deleting = NotDeleting

----------------------------------------------------------------------------
(* The inputs of the operations.  An answer exists only as far as the call  *)
(* gets: no status without a delivered response, no body without a success *)
(* status.  Inputs are drawn only where an operation can be called.        *)

Paths == Strs({"a", "/"}, MaxPathLen)

AllStatuses == 100..999

SomeStatuses == {200, 204, 207, 302, 401, 403, 404, 405, 500}

Reads == {"ok", "error", "timeout"}

StatusesFor(t, statuses) == IF t.ok THEN statuses ELSE {0}

BodyReached(t, status) == t.ok /\ IsOk(check_response_status(status))

ReadsFor(t, status) == IF BodyReached(t, status) THEN Reads ELSE {"ok"}

TestConnectionCalls(transports, statuses, headers) ==
    /\ pc = "ready"
    /\ \E t \in transports : \E status \in StatusesFor(t, statuses) :
           \E hs \in (IF t.ok /\ status \in {200, 207} THEN headers ELSE {PlainHeaders}) :
               TestConnection(t, status, hs)

ListCalls(paths, transports, statuses) ==
    /\ pc = "ready"
    /\ \E path \in paths, t \in transports : \E status \in StatusesFor(t, statuses) :
           \E read \in ReadsFor(t, status) :
               \E slash \in (IF BodyReached(t, status) /\ read = "ok" THEN BOOLEAN ELSE {TRUE}),
                  n \in (IF BodyReached(t, status) /\ read = "ok" THEN 0..MaxChildren ELSE {0}),
                  how \in (IF BodyReached(t, status) /\ read = "ok"
                           THEN {"none", "nohref", "unclosed"} ELSE {"none"}) :
                   List(path, t, status, read, slash, n, how)

\* every way a listing body can be damaged
Damages == {"none", "nohref", "unclosed", "bare", "nolength", "badlength"}

\* list answered with a listing damaged in any of the ways hows
ListDamagedCalls(paths, statuses, hows) ==
    /\ pc = "ready"
    /\ \E path \in paths, status \in statuses :
           \E read \in ReadsFor(Delivered, status) :
               \E slash \in (IF BodyReached(Delivered, status) /\ read = "ok"
                             THEN BOOLEAN ELSE {TRUE}),
                  n \in (IF BodyReached(Delivered, status) /\ read = "ok"
                         THEN 0..MaxChildren ELSE {0}),
                  how \in (IF BodyReached(Delivered, status) /\ read = "ok"
                           THEN hows ELSE {"none"}) :
                   List(path, Delivered, status, read, slash, n, how)

UploadCalls(paths, transports, statuses) ==
    /\ pc = "ready"
    /\ \E readable \in BOOLEAN :
           \E path \in (IF readable THEN paths ELSE {<<"a">>}),
              t \in (IF readable THEN transports ELSE {Delivered}) :
               \E status \in (IF readable THEN StatusesFor(t, statuses) ELSE {0}) :
                   Upload(readable, path, t, status)

DownloadCalls(paths, transports, statuses) ==
    /\ pc = "ready"
    /\ \E path \in paths, t \in transports : \E status \in StatusesFor(t, statuses) :
           \E read \in ReadsFor(t, status) :
               \E writable \in (IF BodyReached(t, status) /\ read = "ok" THEN BOOLEAN ELSE {TRUE}) :
                   Download(path, t, status, read, writable)

DeleteCalls(paths, transports, statuses) ==
    /\ pc = "ready"
    /\ \E path \in paths, t \in transports : \E status \in StatusesFor(t, statuses) :
           Delete(path, t, status)

MkdirCalls(paths, transports, statuses) ==
    /\ pc = "ready"
    /\ \E path \in paths, t \in transports : \E status \in StatusesFor(t, statuses) :
           Mkdir(path, t, status)

----------------------------------------------------------------------------
(* Specifications *)

\* any profile and secret given to new
InitNew == InitWith(Profiles, Passwords)

NextNew ==
    \/ New
    \/ TestConnectionCalls({Delivered}, {207}, {PlainHeaders})
    \/ MkdirCalls({<<"a">>}, {Delivered}, {201})

SpecNew == InitNew /\ [][NextNew]_vars

\* every status code, answered to every operation of one client
InitStatus == InitWith({PlainProfile}, {<<"x">>})

NextStatus ==
    \/ New
    \/ TestConnectionCalls(Transports, AllStatuses, {PlainHeaders})
    \/ ListCalls({<<"/", "a">>}, {Delivered}, AllStatuses)
    \/ UploadCalls({<<"/", "a">>}, {Delivered}, AllStatuses)
    \/ DownloadCalls({<<"/", "a">>}, {Delivered}, AllStatuses)
    \/ DeleteCalls({<<"/", "a">>}, {Delivered}, AllStatuses)
    \/ MkdirCalls({<<"/", "a">>}, {Delivered}, AllStatuses)

SpecStatus == InitStatus /\ [][NextStatus]_vars

\* every combination of response headers, answered to test_connection
InitDetect == InitWith({PlainProfile}, {<<"x">>})

NextDetect ==
    \/ New
    \/ TestConnectionCalls({Delivered}, {200, 207, 404}, Headers)

SpecDetect == InitDetect /\ [][NextDetect]_vars

\* every listing body, answered to list on a client with and without a path
\* prefix in its URL
PrefixProfile ==
    [name |-> <<"x">>, url |-> <<"http://", "a", "/", "a">>, username |-> <<"x">>, timeout |-> 30]

InitList == InitWith({PlainProfile, PrefixProfile}, {<<"x">>})

NextList ==
    \/ New
    \/ ListDamagedCalls(Paths, {207, 404}, Damages)

SpecList == InitList /\ [][NextList]_vars

\* every URL, path, transport failure and listing, with the main status codes
RejectedProfile == [PlainProfile EXCEPT !.timeout = 0]

Secrets == {<<>>, <<" ">>, <<"x">>, <<"y">>, <<"x", "y">>}

\* clients that differ in the secret, every operation and every transport outcome
InitSecret == InitWith({PlainProfile, RejectedProfile}, Secrets)

NextSecret ==
    \/ New
    \/ TestConnectionCalls(Transports, {200, 401, 500}, {PlainHeaders})
    \/ ListCalls(Paths, Transports, {207, 401, 500})
    \/ UploadCalls(Paths, Transports, {201, 401, 500})
    \/ DownloadCalls(Paths, Transports, {200, 401, 500})
    \/ DeleteCalls(Paths, Transports, {204, 401, 500})
    \/ MkdirCalls(Paths, Transports, {201, 401, 500})

SpecSecret == InitSecret /\ [][NextSecret]_vars

\* what the commands are called with
EditedRow(row) == [row EXCEPT !.present = TRUE, !.timeout = 60, !.enabled = FALSE,
                              !.serverType = "custom"]

\* the caller edits the row it has loaded, or sends a row for an id it knows
UpdateRows(row) ==
    LET loaded == IF row.present THEN row
                  ELSE Row(PlainProfile.name, PlainProfile.url, PlainProfile.username, FALSE,
                           PlainProfile.timeout, "None", "unknown", NoOutcome, "generic", TRUE)
    IN  {EditedRow(loaded), [EditedRow(loaded) EXCEPT !.timeout = 0]}

FolderLists ==
    {<<>>, <<SyncFolder("f", <<"a">>), SyncFolder("g", <<"a">>)>>, <<SyncFolder("h", <<"b">>)>>}

CommandPasswords == {<<>>, <<" ">>, <<"x">>}

ProbeAnswers ==
    {[t |-> Delivered, status |-> 200, headers |-> PlainHeaders],
     [t |-> Delivered, status |-> 200, headers |-> [PlainHeaders EXCEPT !.ocVersion = TRUE]],
     [t |-> Delivered, status |-> 401, headers |-> PlainHeaders],
     [t |-> Transport(FALSE, "Request", TRUE, FALSE, ""), status |-> 0,
      headers |-> PlainHeaders]}

AddWebdavServerCalls ==
    /\ Started < MaxCommands
    /\ \/ \E pw \in CommandPasswords : \E platform \in PlatformsFor(<<"a">>, pw) \ {"entry"} :
              AddWebdavServer(AddServerInput(PlainProfile), pw, platform)
       \/ AddWebdavServer(AddServerInput(RejectedProfile), <<"x">>, "ok")

UpdateWebdavServerCalls ==
    /\ Started < MaxCommands
    /\ \E server_id \in {<<"a">>} : \E row \in UpdateRows(servers[server_id]) :
           \E pw \in (IF servers[server_id].present /\ validate(row) = ""
                      THEN {NoEntry, <<>>, <<"x">>} ELSE {NoEntry}) :
               \E platform \in (IF pw = <<"x">> THEN {"ok", "store"} ELSE {"ok"}) :
                   UpdateWebdavServer(server_id, row, pw, platform)

UpdateConfigCalls ==
    /\ Started < MaxCommands
    /\ \E fs \in FolderLists : UpdateConfig(fs)

DeleteWebdavServerCalls ==
    \/ \E server_id \in {<<"a">>, <<"b">>} : DeleteWebdavServerCheck(server_id)
    \/ /\ deleting.active
       /\ \E platform \in (IF servers[deleting.id].present THEN {"ok", "store"} ELSE {"ok"}) :
              DeleteWebdavServerFinish(platform)

TestWebdavConnectionCalls ==
    \/ /\ Started < MaxCommands
       /\ \E server_id \in {<<"a">>, <<"b">>} :
              \E platform \in (IF servers[server_id].present THEN {"ok", "store"} ELSE {"ok"}) :
                  TestWebdavConnectionBegin(server_id, platform)
    \/ /\ testing.active
       /\ \E a \in ProbeAnswers : TestWebdavConnectionFinish(a.t, a.status, a.headers)

\* the commands in any order, interleaved at their await points
InitCommands == InitWith({PlainProfile}, {<<"x">>})

NextCommands ==
    \/ AddWebdavServerCalls
    \/ UpdateWebdavServerCalls
    \/ UpdateConfigCalls
    \/ DeleteWebdavServerCalls
    \/ TestWebdavConnectionCalls

SpecCommands == InitCommands /\ [][NextCommands]_vars

\* the credential store on its own: any calls in any order
InitKeyring == InitWith({PlainProfile}, {<<"x">>})

NextKeyring ==
    \/ SavePasswordCalls
    \/ GetPasswordCalls
    \/ DeletePasswordCalls

SpecKeyring == InitKeyring /\ [][NextKeyring]_vars

Init == InitWith(UrlProfiles, {<<"x">>})

Next ==
    \/ New
    \/ TestConnectionCalls(Transports, SomeStatuses, {PlainHeaders})
    \/ ListCalls(Paths, Transports, SomeStatuses)
    \/ UploadCalls(Paths, Transports, SomeStatuses)
    \/ DownloadCalls(Paths, Transports, SomeStatuses)
    \/ DeleteCalls(Paths, Transports, SomeStatuses)
    \/ MkdirCalls(Paths, Transports, SomeStatuses)

Spec == Init /\ [][Next]_vars

----------------------------------------------------------------------------
(* The decision table of the response classifier, section 4.3 of the        *)
(* specification                                                           *)

TableKind(status) ==
    IF status >= 200 /\ status <= 299 THEN "Success"
    ELSE IF status = 401 \/ status = 403 THEN "AuthError"
    ELSE IF status = 404 THEN "NotFound"
    ELSE "WebDav"

PathOps == {"list", "upload", "download", "delete", "mkdir"}

\* the last call got a response with a status code (for upload: the local
\* file was read, so the request was made)
Answered == pc = "done" /\ call.transport.ok /\ ~IntoUrlFails(call.url)

\* the last call ended in the error the status validation returns
RejectedByStatus ==
    outcome.text \in {"Authentication failed", "Access forbidden", "Resource not found",
                      "HTTP", "Unexpected HTTP status"}

\* C1: for every status code, list, upload, download, delete and mkdir classify
\* the response as the decision table says: a 2xx code passes the validation
\* (and ends upload, delete and mkdir in success), 401 and 403 give AuthError,
\* 404 gives NotFound, and every other code gives a WebDav (protocol) error.
C1_ClassifierFollowsTable ==
    (Answered /\ call.op \in PathOps /\ (call.op = "upload" => call.localOk)) =>
        IF TableKind(call.status) = "Success"
        THEN ~RejectedByStatus /\ (call.op \in {"upload", "delete", "mkdir"} => IsOk(outcome))
        ELSE RejectedByStatus /\ outcome.kind = TableKind(call.status)

C1_Witness ==
    /\ Answered /\ call.op = "mkdir" /\ call.status = 405
    /\ outcome.kind = "WebDav" /\ outcome.num = 405

C3_ProbeAcceptsAnySuccess ==
    (Answered /\ call.op = "test_connection" /\ TableKind(call.status) = "Success") =>
        outcome = OkType(detect_server_type(call.headers))

\* C3 amended: test_connection succeeds exactly when the request is answered
\* with status 200 or 207, and then returns the detected server type; every
\* other 2xx code fails it with a WebDav error.
C3_ProbeAccepts200And207 ==
    (pc = "done" /\ call.op = "test_connection") =>
        /\ IsOk(outcome) <=> (Answered /\ call.status \in {200, 207})
        /\ IsOk(outcome) => outcome.serverType = detect_server_type(call.headers)
        /\ (Answered /\ TableKind(call.status) = "Success" /\ call.status \notin {200, 207})
              => outcome.kind = "WebDav"

C3_Witness ==
    /\ Answered /\ call.op = "test_connection" /\ call.status = 200
    /\ outcome = OkType("generic")

----------------------------------------------------------------------------
(* URL joining *)

AllSlashes(s) == \A i \in 1..Len(s) : s[i] = "/"

\* the last call built the URL of its request from a relative path
BuiltUrl == pc = "done" /\ call.op \in PathOps /\ (call.op = "upload" => call.localOk)

\* r is b, one slash and p, where b is base without its trailing slashes and
\* p is path without its leading slashes
JoinedByOneSlash(r, base, path) ==
    \E i \in 0..Len(base), j \in 0..Len(path) :
        /\ AllSlashes(SubSeq(base, i + 1, Len(base))) /\ (i = 0 \/ base[i] # "/")
        /\ AllSlashes(SubSeq(path, 1, j)) /\ (j = Len(path) \/ path[j + 1] # "/")
        /\ r = SubSeq(base, 1, i) \o <<"/">> \o SubSeq(path, j + 1, Len(path))

\* C4: for the base URL B of any client and any relative path P, the URL of the
\* request is join(B, P) = join(B, "/" + P) = join(B + "/", P), and in it the
\* base and the path are separated by exactly one slash.
C4_JoinIdempotent ==
    BuiltUrl =>
        /\ call.url = build_url(client.url, <<"/">> \o call.path)
        /\ call.url = build_url(client.url \o <<"/">>, call.path)
        /\ JoinedByOneSlash(call.url, client.url, call.path)

C4_Witness ==
    /\ BuiltUrl /\ call.op = "list"
    /\ client.url = <<"http://", "a", "/">> /\ call.path = <<"/", "a">>
    /\ call.url = <<"http://", "a", "/", "a">>

\* C5 as stated: the path with a leading slash added, and the path with a
\* trailing slash added, give the same target URL as the path itself.
C5_SlashesIrrelevant ==
    BuiltUrl =>
        (build_url(client.url, <<"/">> \o call.path) = call.url
         /\ build_url(client.url, call.path \o <<"/">>) = call.url)

\* C5 amended: a leading slash added to the path gives the same target URL; a
\* trailing slash added to a path that names something (has a character other
\* than a slash) is kept, so the target URL is the other one followed by a slash.
C5_LeadingSlashIrrelevant ==
    BuiltUrl =>
        /\ build_url(client.url, <<"/">> \o call.path) = call.url
        /\ IF AllSlashes(call.path)
           THEN build_url(client.url, call.path \o <<"/">>) = call.url
           ELSE build_url(client.url, call.path \o <<"/">>) = call.url \o <<"/">>
        /\ (call.path # <<>> /\ Last(call.path) = "/" /\ ~AllSlashes(call.path))
              => Last(call.url) = "/"

C5_Witness ==
    /\ BuiltUrl /\ call.op = "mkdir"
    /\ client.url = <<"http://", "a">> /\ call.path = <<"a", "/">>
    /\ call.url = <<"http://", "a", "/", "a", "/">>

----------------------------------------------------------------------------
(* Listings *)

\* the last call is a list that parsed the listing a server sends for the
\* queried collection: its own fragment and the fragments of its n members
ListedCollection ==
    /\ Answered /\ call.op = "list" /\ call.read = "ok"
    /\ IsOk(check_response_status(call.status))
    /\ \E slash \in BOOLEAN : call.body = ServerBody(call.listing.self, slash, call.listing.n)

\* C6: list of a collection with N members returns exactly N entries, none of
\* which is the queried collection itself, for every queried path and every
\* base URL.
C6_SelfExcluded ==
    ListedCollection =>
        (IsOk(outcome)
         /\ Len(outcome.files) = call.listing.n
         /\ \A i \in 1..Len(outcome.files) :
               TrimEndMatches(outcome.files[i].path, "/") # TrimEndMatches(call.path, "/"))

----------------------------------------------------------------------------
(* Construction *)

AllBlank(s) == \A i \in 1..Len(s) : s[i] = " "

\* C7: new with an empty or white-space secret and an otherwise valid profile
\* fails with ConfigError "Password cannot be empty"; no client exists
\* afterwards and no request is ever sent.
C7_BlankSecretRejected ==
    (pc # "init" /\ validate(config) = "" /\ AllBlank(password)) =>
        /\ call.op = "new"
        /\ outcome.kind = "ConfigError" /\ outcome.text = "Password cannot be empty"
        /\ client = NoClient
        /\ sent = 0

C7_Witness ==
    /\ pc = "ready" /\ validate(config) = "" /\ password = <<" ">>
    /\ outcome.text = "Password cannot be empty"

\* the profile breaks a constraint of section 3 of the specification
InvalidProfile(cfg) ==
    \/ AllBlank(cfg.url)
    \/ ~ParseUrl(cfg.url).ok
    \/ ParseUrl(cfg.url).scheme \notin {"http://", "https://"}
    \/ ParseUrl(cfg.url).host = NoHost
    \/ AllBlank(cfg.username)
    \/ AllBlank(cfg.name)
    \/ cfg.timeout < 1
    \/ cfg.timeout > 300

\* C8: new with an invalid profile fails with ConfigError "Invalid server
\* config", no client exists and no request is ever sent; new with a valid
\* profile (timeouts 1 and 300 included) and a secret returns a client that
\* reports the configured timeout.
C8_InvalidProfileRejected ==
    pc # "init" =>
        /\ InvalidProfile(config) =>
              /\ call.op = "new"
              /\ outcome.kind = "ConfigError" /\ outcome.text = "Invalid server config"
              /\ client = NoClient
              /\ sent = 0
        /\ (~InvalidProfile(config) /\ ~AllBlank(password)) =>
              /\ client # NoClient
              /\ client.timeout = config.timeout
              /\ client.url = config.url

\* a profile whose only fault is a timeout of 301 seconds has been rejected
C8_Witness ==
    /\ pc = "ready" /\ call.op = "new"
    /\ config = [name |-> <<"x">>, url |-> <<"https://", "a">>, username |-> <<"x">>, timeout |-> 301]
    /\ outcome.kind = "ConfigError" /\ outcome.text = "Invalid server config"
    /\ client = NoClient /\ sent = 0

----------------------------------------------------------------------------
(* Server-type detection *)

\* the header is present and holds the vendor's name in some spelling
Mentions(h, vendor) ==
    /\ h.present
    /\ \E i \in 1..Len(h.words) :
          \/ vendor = "nextcloud" /\ h.words[i] \in {"NextCloud", "nextcloud"}
          \/ vendor = "owncloud" /\ h.words[i] \in {"ownCloud", "owncloud"}
          \/ vendor = "apache" /\ h.words[i] \in {"Apache", "apache"}
          \/ vendor = "nginx" /\ h.words[i] \in {"nginx"}

PrecedenceType(server, poweredBy, ocVersion) ==
    IF Mentions(server, "nextcloud") THEN "nextcloud"
    ELSE IF Mentions(server, "owncloud") THEN "owncloud"
    ELSE IF Mentions(server, "apache") THEN "apache"
    ELSE IF Mentions(server, "nginx") THEN "nginx"
    ELSE IF Mentions(poweredBy, "nextcloud") THEN "nextcloud"
    ELSE IF Mentions(poweredBy, "owncloud") THEN "owncloud"
    ELSE IF ocVersion THEN "owncloud"
    ELSE "generic"

\* a header value with a byte that is not visible ASCII counts as absent
AsciiOnly(h) ==
    IF \E i \in 1..Len(h.words) : h.words[i] = "e-acute" THEN NoHeader ELSE h

Probed == Answered /\ call.op = "test_connection" /\ IsOk(outcome)

\* C9 as stated: the detected type follows the precedence Server (nextcloud,
\* owncloud, apache, nginx), X-Powered-By (nextcloud, owncloud), X-OC-Version,
\* generic, over the header values as sent.
C9_DetectionPrecedence ==
    Probed =>
        outcome.serverType =
            PrecedenceType(call.headers.server, call.headers.poweredBy, call.headers.ocVersion)

\* C9 amended: the detected type follows that precedence over the header
\* values that are visible ASCII text; a Server or X-Powered-By value with any
\* other byte is skipped as if the header were absent.  The result is one of
\* nextcloud, owncloud, apache, nginx, generic.
C9_DetectionPrecedenceAscii ==
    Probed =>
        /\ outcome.serverType =
              PrecedenceType(AsciiOnly(call.headers.server), AsciiOnly(call.headers.poweredBy),
                             call.headers.ocVersion)
        /\ outcome.serverType \in {"nextcloud", "owncloud", "apache", "nginx", "generic"}

C9_Witness ==
    /\ Probed /\ call.status = 207
    /\ call.headers.server = Header(TRUE, <<"Apache", "NextCloud">>)
    /\ outcome.serverType = "nextcloud"

----------------------------------------------------------------------------
(* Terminal outcomes *)

\* C10: every call of a public operation ends in Success, AuthError, NotFound,
\* WebDav or Network, or for upload and download in Io; never in ConfigError.
C10_TerminalOutcomes ==
    pc = "done" =>
        outcome.kind \in {"Success", "AuthError", "NotFound", "WebDav", "Network"}
                         \cup (IF call.op \in {"upload", "download"} THEN {"Io"} ELSE {})

----------------------------------------------------------------------------
(* Damaged listings *)

\* the last call is a list that got a success status and read the whole body
ListedBody ==
    /\ Answered /\ call.op = "list" /\ call.read = "ok"
    /\ IsOk(check_response_status(call.status))

\* the fragment can be turned into an entry: it is closed and has an href
Complete(f) == f.closed /\ f.href # NoText

\* C11: when list returns success, every fragment the body starts could be
\* turned into an entry, and the result holds an entry for each of them except
\* the fragment of the queried collection (the first); a body with a fragment
\* that cannot be turned into an entry makes the call fail.
C11_NothingDropped ==
    ListedBody =>
        /\ IsOk(outcome) =>
              \A i \in 2..Len(call.body) :
                  \E j \in 1..Len(outcome.files) : outcome.files[j].path = call.body[i].href
        /\ (\E i \in 1..Len(call.body) : ~Complete(call.body[i])) => ~IsOk(outcome)

\* C12: a fragment without an extractable href fails list as a whole with a
\* WebDav error and no entries, whatever was parsed before it; a missing or
\* unparseable content length never fails the call and gives size 0; every
\* directory entry has size 0.
C12_HrefRequired ==
    ListedBody =>
        /\ (\E i \in 1..Len(call.body) : call.body[i].href = NoText) =>
              /\ outcome.kind = "WebDav"
              /\ outcome.files = <<>>
        /\ (\A i \in 1..Len(call.body) : call.body[i].href # NoText) => IsOk(outcome)
        /\ \A j \in 1..Len(outcome.files) :
              /\ outcome.files[j].isDirectory => outcome.files[j].size = 0
              /\ \A i \in 1..Len(call.body) :
                    (call.body[i].href = outcome.files[j].path
                     /\ call.body[i].length \in {NoText, <<"x">>})
                        => outcome.files[j].size = 0

----------------------------------------------------------------------------
(* Requests, timeouts and local files *)

TimedOut ==
    /\ pc = "done" /\ ~IntoUrlFails(call.url)
    /\ (call.op = "upload" => call.localOk)
    /\ \/ ~call.transport.ok /\ call.transport.timeout
       \/ call.transport.ok /\ call.read = "timeout"

\* C14: whenever the timeout expires, at any point of the request/response
\* cycle, the operation ends in a Network error that states the configured
\* timeout in seconds, never in another error kind.
C14_TimeoutIsNetwork ==
    TimedOut =>
        /\ outcome.kind = "Network"
        /\ outcome.text = "Connection timeout after"
        /\ outcome.num = client.timeout

\* C16: an upload whose local file cannot be read ends in Io, and no PUT
\* request has been sent.
C16_UnreadableFileNotSent ==
    (pc = "done" /\ call.op = "upload" /\ ~call.localOk) =>
        /\ outcome.kind = "Io"
        /\ sent = 0

C16_Witness ==
    /\ pc = "done" /\ call.op = "upload" /\ ~call.localOk
    /\ client.url = <<"http://", "a">>
    /\ outcome.kind = "Io" /\ sent = 0

\* the last call is a download that got a success status and the whole body
Transferred ==
    /\ Answered /\ call.op = "download" /\ call.read = "ok"
    /\ IsOk(check_response_status(call.status))

\* C17: download leaves the local file untouched unless the whole transfer
\* succeeded: after a transport failure, a status that is not a success, or a
\* body read that failed or timed out, the call returns the error and the file
\* is as before; the file is written only after the status validation and the
\* complete read, and a failure of that write is an Io error.
C17_DownloadAllOrNothing ==
    (pc = "done" /\ call.op = "download") =>
        /\ ~Transferred => (localFile = "old" /\ ~IsOk(outcome))
        /\ (Transferred /\ ~call.localOk) => outcome.kind = "Io"
        /\ (Transferred /\ call.localOk) => (IsOk(outcome) /\ localFile = "new")

C17_Witness ==
    /\ pc = "done" /\ call.op = "download" /\ call.transport.ok
    /\ call.status = 200 /\ call.read = "timeout"
    /\ ~IsOk(outcome) /\ localFile = "old"

----------------------------------------------------------------------------
(* The secret *)

\* the result of the recorded call had client c made it and met the same
\* server answer, the same transport outcome and the same local file
ResultOf(c) ==
    LET r == Send(call.url, call.transport) IN
    IF call.op = "test_connection" THEN TestConnectionResult(c, r, call.status, call.headers)
    ELSE IF call.op = "list" THEN ListResult(c, call.path, r, call.status, call.read, call.body)
    ELSE IF call.op = "upload"
    THEN IF ~call.localOk THEN Err("Io", "", "", NoNum) ELSE SimpleResult(c, r, call.status)
    ELSE IF call.op = "download" THEN DownloadResult(c, r, call.status, call.read, call.localOk)
    ELSE SimpleResult(c, r, call.status)

\* C18: no outcome depends on the secret: a client that differs from this one
\* only in the secret and meets the same responses and transport failures ends
\* every operation in the identical outcome with the identical message, and the
\* outcome of construction is the same for every secret that is blank, and the
\* same for every secret that is not.
C18_SecretNeverShows ==
    /\ (pc = "ready" /\ call.op = "new") =>
           \A s \in Secrets : IsBlank(s) = IsBlank(password) => NewResult(config, s) = outcome
    /\ pc = "done" =>
           \A s \in Secrets : ~IsBlank(s) => ResultOf([client EXCEPT !.password = s]) = outcome

C18_Witness ==
    /\ pc = "done" /\ client.password = <<"x", "y">>
    /\ ~call.transport.ok /\ call.transport.timeout
    /\ outcome.kind = "Network" /\ outcome.num = client.timeout
    /\ ResultOf([client EXCEPT !.password = <<"y">>]) = outcome

----------------------------------------------------------------------------
(* The credential store *)

\* call i succeeded in changing what is stored for id
Changes(i, id) ==
    /\ klog[i].op \in {"save", "delete"}
    /\ klog[i].id = id
    /\ klog[i].result.kind = "Success"

\* the last call before call j that succeeded in a save or delete on id; 0 if none
LastChange(j, id) ==
    LET S == {i \in 1..(j - 1) : Changes(i, id)}
    IN  IF S = {} THEN 0 ELSE CHOOSE i \in S : \A k \in S : k <= i

\* the password saved for id when call j is made, going by the calls that
\* succeeded before it: that of the last save, nothing after a delete
SavedBefore(j, id) ==
    IF LastChange(j, id) = 0 THEN NoEntry
    ELSE IF klog[LastChange(j, id)].op = "delete" THEN NoEntry
    ELSE klog[LastChange(j, id)].password

\* C19 as stated: get_password(id) returns exactly the password of the most
\* recent successful save_password on id, as long as no delete_password on id
\* succeeded since.
C19_RoundTrip ==
    \A j \in 1..Len(klog) :
        (klog[j].op = "get" /\ SavedBefore(j, klog[j].id) # NoEntry) =>
            klog[j].result = KSuccess(SavedBefore(j, klog[j].id))

\* C19, amended: get_password(id) returns exactly the password of the most
\* recent successful save_password on id, as long as no delete_password on id
\* succeeded since, unless the platform store fails on this very call; then it
\* returns ConfigError and no password, and later calls are not affected.
C19_RoundTripUnlessPlatformFails ==
    \A j \in 1..Len(klog) :
        (klog[j].op = "get" /\ SavedBefore(j, klog[j].id) # NoEntry) =>
            IF klog[j].platform = "ok"
            THEN klog[j].result = KSuccess(SavedBefore(j, klog[j].id))
            ELSE klog[j].result.kind = "ConfigError" /\ klog[j].result.value = NoEntry

C19_Witness ==
    /\ Len(klog) = 3
    /\ klog[1].op = "save" /\ klog[1].id = <<"a">> /\ klog[1].password = <<"x">>
    /\ klog[1].result.kind = "Success"
    /\ klog[2].op = "save" /\ klog[2].id = <<"a">> /\ klog[2].password = <<"y">>
    /\ klog[2].result.kind = "Success"
    /\ klog[3].op = "get" /\ klog[3].id = <<"a">> /\ klog[3].result = KSuccess(<<"y">>)

\* C20 as stated: get_password and delete_password on an id with no saved
\* password (never saved, or deleted since) return NotFound, and what is stored
\* for an id is changed only by a save or delete on that id.
C20_DeletedIsNotFound ==
    /\ \A j \in 1..Len(klog) :
           (klog[j].op \in {"get", "delete"} /\ SavedBefore(j, klog[j].id) = NoEntry) =>
               klog[j].result.kind = "NotFound"
    /\ \A id \in ServerIds : keyring[id] = SavedBefore(Len(klog) + 1, id)

\* C20, amended: get_password and delete_password on an id with no saved
\* password never succeed; they return NotFound when the id is not blank and
\* the platform store works, and ConfigError for a blank id or a platform
\* failure; what is stored for an id is changed only by a save or delete on it.
C20_DeletedIsNotFoundOrConfigError ==
    /\ \A j \in 1..Len(klog) :
           (klog[j].op \in {"get", "delete"} /\ SavedBefore(j, klog[j].id) = NoEntry) =>
               /\ klog[j].result.value = NoEntry
               /\ klog[j].result.kind =
                      (IF IsBlank(klog[j].id) \/ klog[j].platform # "ok"
                       THEN "ConfigError" ELSE "NotFound")
    /\ \A id \in ServerIds : keyring[id] = SavedBefore(Len(klog) + 1, id)

C20_Witness ==
    /\ Len(klog) = 3
    /\ klog[1].op = "save" /\ klog[1].id = <<"a">> /\ klog[1].result.kind = "Success"
    /\ klog[2].op = "delete" /\ klog[2].id = <<"a">> /\ klog[2].result.kind = "Success"
    /\ klog[3].op = "get" /\ klog[3].id = <<"a">> /\ klog[3].result.kind = "NotFound"

----------------------------------------------------------------------------
(* The probe's error statuses *)

----------------------------------------------------------------------------
(* The slash form of a listed path *)

\* what list returns for the path written as form, when the server gives the
\* answer of the recorded call
ListedAs(form) ==
    ListResult(client, form, Send(build_url(client.url, form), call.transport),
               call.status, call.read, call.body)

Entries(o) == {o.files[i] : i \in 1..Len(o.files)}

\* C26: list returns the same entries whether the path is written P, "/" P or
\* P "/": for the same answer of the server, the three calls end alike and
\* their sets of entries are equal.
C26_SlashFormIrrelevant ==
    (pc = "done" /\ call.op = "list") =>
        \A form \in {<<"/">> \o call.path, call.path \o <<"/">>} :
            /\ ListedAs(form).kind = outcome.kind
            /\ Entries(ListedAs(form)) = Entries(outcome)

----------------------------------------------------------------------------
(* The commands on the server table *)

\* a command named op returns in this step
Returns(op) == cmd'.n = cmd.n + 1 /\ cmd'.op = op

\* delete_webdav_server is called on id in this step and runs its in-use check
DeleteCalled(id) ==
    /\ ~deleting.active
    /\ \/ deleting'.active /\ deleting'.id = id
       \/ ~deleting'.active /\ Returns("delete") /\ cmd'.id = id

Referencing(id) == {i \in 1..Len(folders) : folders[i].serverId = id}

\* C21: delete_webdav_server on a server that a sync folder of the stored
\* configuration references returns ConfigError with the number and the names
\* of the referencing folders and leaves the server's row and password as they
\* were; a server no folder references passes the check.
C21_DeleteProtection ==
    [][\A id \in {<<"a">>, <<"b">>} :
           DeleteCalled(id) =>
               IF Referencing(id) # {}
               THEN /\ ~deleting'.active
                    /\ ~cmd'.result.ok
                    /\ cmd'.result.kind = "ConfigError"
                    /\ cmd'.result.num = Cardinality(Referencing(id))
                    /\ Len(cmd'.result.names) = Cardinality(Referencing(id))
                    /\ {cmd'.result.names[i] : i \in 1..Len(cmd'.result.names)}
                           = {folders[i].name : i \in Referencing(id)}
                    /\ servers'[id] = servers[id]
                    /\ keyring'[id] = keyring[id]
               ELSE deleting'.active]_vars

C21_Witness ==
    /\ cmd.op = "delete" /\ cmd.id = <<"a">>
    /\ ~cmd.result.ok /\ cmd.result.num = 2 /\ cmd.result.names = <<"f", "g">>
    /\ servers[<<"a">>].present /\ keyring[<<"a">>] = <<"x">>

\* C22: when delete_webdav_server returns success, no row with that id exists
\* and get_password for that id returns NotFound.
C22_DeletionComplete ==
    (cmd.op = "delete" /\ cmd.result.ok) =>
        /\ ~servers[cmd.id].present
        /\ get_password(keyring, cmd.id, "ok").result.kind = "NotFound"

\* C23: when add_webdav_server or update_webdav_server returns an error, the
\* table holds no new and no changed row from that call (the error names no
\* step that succeeded, so the other way out the claim leaves is never taken).
C23_NoPartialSuccess ==
    [][((Returns("add") \/ Returns("update")) /\ ~cmd'.result.ok) => servers' = servers]_vars

\* C24: when test_webdav_connection returns Ok(result), the row records the
\* test: last_test_at is set; after a success the status is "success", the
\* error is empty and server_type is the detected type; after a failure the
\* status is "failed", the error is the result's message and server_type is as
\* it was stored.  When the row or the password does not exist the command
\* returns NotFound, sends no request and changes no row.
C24_TestRecorded ==
    [][Returns("test") =>
           IF cmd'.result.ok
           THEN /\ servers'[cmd'.id].lastTestAt = "Some"
                /\ IF IsOk(cmd'.result.test)
                   THEN /\ servers'[cmd'.id].lastTestStatus = "success"
                        /\ servers'[cmd'.id].lastTestError = NoOutcome
                        /\ servers'[cmd'.id].serverType = cmd'.result.test.serverType
                   ELSE /\ servers'[cmd'.id].lastTestStatus = "failed"
                        /\ servers'[cmd'.id].lastTestError = cmd'.result.test
                        /\ servers'[cmd'.id].serverType = servers[cmd'.id].serverType
           ELSE (~testing.active /\ (~servers[cmd'.id].present \/ keyring[cmd'.id] = NoEntry)) =>
                    /\ cmd'.result.kind = "NotFound"
                    /\ sent' = sent
                    /\ servers' = servers]_vars

\* C27: every password in the credential store is one WebDavClient::new
\* accepts for a valid profile.
C27_StoredSecretIsValid ==
    \A id \in ServerIds :
        keyring[id] # NoEntry => IsOk(NewResult(PlainProfile, keyring[id]))

\* the columns update_webdav_server is called to change
Edited == {"name", "url", "username", "useHttps", "timeout", "enabled"}

\* C28: the write of a connection test's result leaves name, url, username,
\* use_https, timeout and enabled as they are stored, so what an update wrote
\* while the test was in flight is still stored afterwards.
C28_NoLostUpdate ==
    [][(Returns("test") /\ cmd'.result.ok) =>
           \A f \in Edited : servers'[cmd'.id][f] = servers[cmd'.id][f]]_vars

\* C29: the row of a server is deleted only in a state in which no sync folder
\* of the stored configuration references the server.
C29_NeverDeletedWhileReferenced ==
    [][\A id \in {<<"a">>, <<"b">>} :
           (servers[id].present /\ ~servers'[id].present) => Referencing(id) = {}]_vars

====
